---- MODULE Spec2Model ----
(***************************************************************************)
(* Model of the pyOpt engine bindings pyMMFD and pyNSGA2: the solve        *)
(* routine of each driver, the evaluation adapters (mmfdfun, objconfunc),  *)
(* the gradient bridge (mmfdgrd), hot-start replay from a history store,   *)
(* the collective broadcasts of a parallel run, and the post-run           *)
(* replacement of the history files.                                       *)
(*                                                                         *)
(* Three specifications share the module:                                  *)
(*   Spec        the solve of one driver on every cooperating process      *)
(*   SpecAdapter the values one adapter call hands to the engine and the   *)
(*               values the result assembler stores                        *)
(*   SpecWk      the workspace sizing of MMFD                              *)
(*   SpecGroups  the group index of a problem and the unflattening of x    *)
(*   SpecGrad    the values one call of the gradient bridge hands back     *)
(***************************************************************************)
EXTENDS Integers, Sequences, FiniteSets, TLC

VARIABLES
    cfg,        \* the inputs of the run: constructor and solve arguments, options, problem, mpi4py
    pc,         \* per process: position in __solve__ / in a callback
    drv,        \* per process: the driver object's fields and the locals of __solve__
    loc,        \* per process: the locals of the running callback
    hos_file,   \* the history store read by a hot start
    log_file,   \* the history store written by this run
    disk,       \* the history files on disk, by name
    script,     \* the callbacks the engine issues, in order (the same on every process)
    ghost,      \* observations used only to state properties
    ad,         \* SpecAdapter: one adapter call and its assembly
    wk,         \* SpecWk: one workspace sizing
    grp,        \* SpecGroups: the variable groups of one problem and their unflattening
    gd          \* SpecGrad: one call of the gradient bridge

vars == <<cfg, pc, drv, loc, hos_file, log_file, disk, script, ghost, ad, wk, grp, gd>>
solveVars == <<cfg, pc, drv, loc, hos_file, log_file, disk, script, ghost>>

----------------------------------------------------------------------------
(* Bounds of the model *)

\* number of cooperating processes of a parallel run
NRanks == 2
\* longest sequence of callbacks the engine issues in one run
MaxCalls == 2
\* most records of one kind held by the history store that is replayed
MaxHist == 2
\* most objectives and most constraints of a problem handed to one adapter call
MaxObj == 2
MaxCon == 2
\* most variables and most constraints of a problem whose workspace is sized
MaxNvar == 8
MaxNcon == 7
\* most variable groups of a problem and most members of one group
MaxGroups == 3
MaxWidth == 2
MaxVar == 2

----------------------------------------------------------------------------
(* Python strings as sequences of characters; str.upper() and str.lower() *)

PyNone == <<"None">>
s_POA == <<"P", "O", "A">>
s_poa == <<"p", "o", "a">>
s_pgc == <<"p", "g", "c">>
s_PGC == <<"P", "G", "C">>
s_empty == <<>>

UpperChar(c) ==
    CASE c = "p" -> "P" [] c = "o" -> "O" [] c = "a" -> "A"
      [] c = "g" -> "G" [] c = "c" -> "C" [] OTHER -> c

LowerChar(c) ==
    CASE c = "P" -> "p" [] c = "O" -> "o" [] c = "A" -> "a"
      [] c = "G" -> "g" [] c = "C" -> "c" [] OTHER -> c

upper(s) == [i \in 1..Len(s) |-> UpperChar(s[i])]
lower(s) == [i \in 1..Len(s) |-> LowerChar(s[i])]

\* MMFD.__init__ / NSGA2.__init__: the value of self.poa for an accepted pll_type
init_poa(pll_type) ==
    IF pll_type = PyNone THEN FALSE ELSE upper(pll_type) = s_POA

\* the pll_type values the constructor accepts (any other raises ValueError)
PllTypes == {PyNone, s_POA, s_poa}
SensModes == {s_empty, s_pgc, s_PGC}


----------------------------------------------------------------------------
(* The inputs of a run *)

Engines == {"MMFD", "NSGA2"}

\* mpi4py as found by "import mpi4py": importable or not, and mpi4py.__version__
MpiEnvs ==
    { [avail |-> TRUE,  version |-> <<"1", ".", "3">>],
      [avail |-> TRUE,  version |-> <<"0", ".", "6">>],
      [avail |-> TRUE,  version |-> <<"3", ".", "0">>],
      [avail |-> FALSE, version |-> <<>>] }

\* the option table entries the solve routines range-check (def_opts)
DefaultOptions == [IOPT |-> 0, IONED |-> 0, IPRINT |-> 2, PrintOut |-> 1, seed |-> 0]

OptionInputs ==
    {DefaultOptions}
    \cup {[DefaultOptions EXCEPT !.IOPT = v] : v \in {-1, 2}}
    \cup {[DefaultOptions EXCEPT !.IONED = v] : v \in {-1, 4}}
    \cup {[DefaultOptions EXCEPT !.IPRINT = v] : v \in {-1, 3}}
    \cup {[DefaultOptions EXCEPT !.PrintOut = v] : v \in {-1, 3}}
    \cup {[DefaultOptions EXCEPT !.seed = 7]}

\* the problem: the kind of each variable and of each constraint, in declaration order
DefaultProblem == [vtypes |-> <<"c", "c">>, ctypes |-> <<"i">>]

ProblemInputs ==
    {DefaultProblem}
    \cup {[DefaultProblem EXCEPT !.vtypes = v] : v \in {<<"c", "i">>, <<"d", "c">>}}
    \cup {[DefaultProblem EXCEPT !.ctypes = v] : v \in {<<>>, <<"i", "e">>}}

\* store_hst and hot_start: False or a file name
StoreHstInputs == {"False", "hist"}
HotStartInputs == {"False", "hist", "prev"}

WantsPll(c) ==
    IF c.engine = "MMFD"
    THEN init_poa(c.pll_type) \/ lower(c.sens_mode) = s_pgc
    ELSE init_poa(c.pll_type)

DefaultMpi == [avail |-> TRUE, version |-> <<"1", ".", "3">>]

AllInputs ==
    [ engine : Engines, pll_type : PllTypes, sens_mode : SensModes, mpi : MpiEnvs,
      store_hst : StoreHstInputs, hot_start : HotStartInputs,
      options : OptionInputs, problem : ProblemInputs,
      histEval : 0..MaxHist, histGrad : 0..MaxHist ]

\* what holds of every input: only MMFD takes sens_mode and replays gradients; a
\* store that is not replayed has no content that matters; the name of the store
\* replayed matters only beside the name of the store written
WellFormed(c) ==
    /\ c.engine = "NSGA2" => c.sens_mode = s_empty /\ c.histGrad = 0
    /\ c.hot_start = "False" => c.histEval = 0 /\ c.histGrad = 0
    /\ c.hot_start = "prev" => c.store_hst = "hist"

\* the runs of the model vary one group of inputs at a time:
\*   the history arguments and the content of the store, for the default options and
\*   problem, mpi4py 1.x and the usual spelling of 'POA' and 'pgc';
\*   everything else (spelling, mpi4py, options, problem), for a hot start that
\*   replaces the store it replays
Inputs ==
    { c \in AllInputs :
        /\ WellFormed(c)
        /\ \/ /\ c.pll_type \in {PyNone, s_POA}
              /\ c.sens_mode \in {s_empty, s_pgc}
              /\ c.mpi = DefaultMpi
              /\ c.options = DefaultOptions
              /\ c.problem = DefaultProblem
           \/ /\ c.store_hst = "hist" /\ c.hot_start = "hist"
              /\ c.histEval = 1
              /\ c.histGrad = (IF c.engine = "MMFD" THEN 1 ELSE 0)
              /\ c.options = DefaultOptions \/ c.problem = DefaultProblem }

\* the processes of the run: mpiexec starts NRanks of them for a parallel run
Procs == IF WantsPll(cfg) /\ cfg.mpi.avail THEN 0..(NRanks - 1) ELSE {0}

----------------------------------------------------------------------------
(* The history stores (pyOpt's History and Optimizer._setHistory) *)

FileNames == {"hist", "hist_tmp", "prev"}

\* Optimizer._setHistory: the flags it leaves on the driver and the files it names
setHistory(store_hst, hot_start) ==
    [ sto_hst  |-> store_hst # "False",
      h_start  |-> hot_start # "False",
      tmp_file |-> store_hst # "False" /\ hot_start = store_hst,
      hosName  |-> hot_start,
      logName  |-> IF store_hst # "False" /\ hot_start = store_hst
                   THEN "hist_tmp" ELSE store_hst ]

\* History.read(ident): the next record of one kind, or hist_end past the last one
hos_read(h, kind) ==
    LET cur == IF kind = "eval" THEN h.ecur ELSE h.gcur
        n   == IF kind = "eval" THEN cfg.histEval ELSE cfg.histGrad
    IN  IF cur >= n
        THEN [hist_end |-> TRUE, vals |-> <<"empty", 0>>, h |-> [h EXCEPT !.reads = @ + 1]]
        ELSE [hist_end |-> FALSE, vals |-> <<kind, cur + 1>>,
              h |-> IF kind = "eval"
                    THEN [h EXCEPT !.ecur = @ + 1, !.reads = @ + 1]
                    ELSE [h EXCEPT !.gcur = @ + 1, !.reads = @ + 1]]

\* History.close()
hist_close(h) == [h EXCEPT !.open = FALSE, !.closes = @ + 1]

\* History.write(value, ident)
log_write(l, rec) == [l EXCEPT !.recs = Append(@, rec)]

\* the store has just reported its end to this read
Exhausted(rd) == \E op \in rd.ops : op[2] = "close_hos"

----------------------------------------------------------------------------
(* State after construction of the driver, before __solve__ is called *)

NoVals == <<"empty", 0>>

\* the files before the run: the store of the earlier run that a hot start names
InitialDisk == [n \in FileNames |-> IF n = cfg.hot_start THEN "orig" ELSE "none"]

Init ==
    /\ cfg \in Inputs
    /\ pc = [r \in Procs |-> "start"]
    /\ drv = [r \in Procs |->
                [ poa |-> init_poa(cfg.pll_type), pll |-> FALSE, myrank |-> 0,
                  h_start |-> FALSE, sto_hst |-> FALSE, tmp_file |-> FALSE,
                  Bcast |-> "unbound", err |-> "", inEngine |-> FALSE,
                  ip |-> 0, seed |-> "option",
                  sol_evals |-> "unset", printed |-> "" ]]
    /\ loc = [r \in Procs |-> [vals |-> NoVals, out |-> NoVals]]
    /\ hos_file = [name |-> "False", open |-> FALSE, closes |-> 0,
                   ecur |-> 0, gcur |-> 0, reads |-> 0]
    /\ log_file = [name |-> "False", open |-> FALSE, closes |-> 0, recs |-> <<>>]
    /\ disk = InitialDisk
    /\ script = <<>>
    /\ ghost = [ storeOps |-> {},
                 bcasts |-> [r \in Procs |-> <<>>],
                 evals |-> [r \in Procs |-> 0],
                 calls |-> [r \in Procs |-> 0],
                 outs |-> [r \in Procs |-> <<>>],
                 exhaustedAt |-> 0, readsAtExh |-> 0 ]
    /\ ad = [stage |-> "idle"]
    /\ wk = [stage |-> "idle"]
    /\ grp = [stage |-> "idle"]
    /\ gd = [stage |-> "idle"]


----------------------------------------------------------------------------
(* __solve__, up to the engine call *)

StoreOp(r, op) == [ghost EXCEPT !.storeOps = @ \cup {<<r, op>>}]

\* an mpi4py block that goes on as a serial solve when the import fails
mpi_setup_falls_back(r) ==
    IF ~cfg.mpi.avail
    THEN [err |-> "", pll |-> FALSE, myrank |-> 0, Bcast |-> "unbound",
          printed |-> "requires mpi4py"]
    ELSE [err |-> "", pll |-> TRUE, myrank |-> r, printed |-> "",
          Bcast |-> CASE cfg.mpi.version[1] = "0" -> "comm.Bcast"
                      [] cfg.mpi.version[1] = "1" -> "comm.bcast"
                      [] OTHER -> "unbound"]

\* the mpi4py block of __solve__: the outcome of the import (ImportError is caught
\* and reported by print), of MPI.COMM_WORLD (MPI is a local name that the failed
\* import left unbound) and of the choice of Bcast by mpi4py.__version__[0]
mpi_setup(r) ==
    IF ~cfg.mpi.avail
    THEN [err |-> "UnboundLocalError", pll |-> drv[r].pll, myrank |-> drv[r].myrank,
          Bcast |-> "unbound", printed |-> "requires mpi4py"]
    ELSE [err |-> "", pll |-> TRUE, myrank |-> r, printed |-> "",
          Bcast |-> CASE cfg.mpi.version[1] = "0" -> "comm.Bcast"
                      [] cfg.mpi.version[1] = "1" -> "comm.bcast"
                      [] OTHER -> "unbound"]

\* whether __solve__ sets up the parallel run
MMFD_wants_mpi(r) == drv[r].poa \/ lower(cfg.sens_mode) = s_pgc
NSGA2_wants_mpi(r) == drv[r].poa

\* MMFD_both_regimes comparing sens_mode as given, without lower()
MMFD_both_regimes_exact(r) == drv[r].poa /\ cfg.sens_mode = s_pgc

\* MMFD.__solve__: the check that refuses 'POA' together with 'pgc'
MMFD_both_regimes(r) == drv[r].poa /\ lower(cfg.sens_mode) = s_pgc

\* a serial set-up that leaves self.pll and self.myrank as it finds them
serial_setup_keeps(r) ==
    [err |-> "", pll |-> drv[r].pll, myrank |-> drv[r].myrank, Bcast |-> "unbound",
     printed |-> ""]

\* "else: self.pll = False; self.myrank = 0"
serial_setup(r) ==
    [err |-> "", pll |-> FALSE, myrank |-> 0, Bcast |-> "unbound", printed |-> ""]

\* the rest of the set-up: self.pll, self.myrank, then _setHistory on this process
\* (only rank 0 opens the stores; the store written is created on disk)
setup_run(r, want) ==
    LET m == IF want THEN mpi_setup(r) ELSE serial_setup(r)
        h == setHistory(cfg.store_hst, cfg.hot_start)
    IN  IF m.err # ""
        THEN /\ pc' = [pc EXCEPT ![r] = "raised"]
             /\ drv' = [drv EXCEPT ![r].err = m.err, ![r].printed = m.printed]
             /\ UNCHANGED <<hos_file, log_file, disk, ghost>>
        ELSE /\ pc' = [pc EXCEPT ![r] = "validate"]
             /\ drv' = [drv EXCEPT ![r].pll = m.pll, ![r].myrank = m.myrank,
                                   ![r].printed = m.printed,
                                   ![r].Bcast = m.Bcast, ![r].h_start = h.h_start,
                                   ![r].sto_hst = h.sto_hst,
                                   ![r].tmp_file = (m.myrank = 0 /\ h.tmp_file)]
             /\ hos_file' = IF m.myrank = 0 /\ h.h_start
                            THEN [hos_file EXCEPT !.name = h.hosName, !.open = TRUE]
                            ELSE hos_file
             /\ log_file' = IF m.myrank = 0 /\ h.sto_hst
                            THEN [log_file EXCEPT !.name = h.logName, !.open = TRUE]
                            ELSE log_file
             /\ disk' = IF m.myrank = 0 /\ h.sto_hst
                        THEN [disk EXCEPT ![h.logName] = "fresh"]
                        ELSE disk
             /\ ghost' = IF m.myrank = 0 /\ (h.sto_hst \/ h.h_start)
                         THEN StoreOp(r, "open") ELSE ghost

\* MMFD.__solve__, from its first line to the construction of Gradient
MMFD_solve_start(r) ==
    /\ cfg.engine = "MMFD"
    /\ pc[r] = "start"
    /\ IF MMFD_both_regimes(r)
       THEN /\ pc' = [pc EXCEPT ![r] = "raised"]
            /\ drv' = [drv EXCEPT ![r].err = "NotImplementedError"]
            /\ UNCHANGED <<hos_file, log_file, disk, ghost>>
       ELSE setup_run(r, MMFD_wants_mpi(r))
    /\ UNCHANGED <<cfg, loc, script, ad, wk, grp, gd>>

\* NSGA2.__solve__, from its first line to _setHistory
NSGA2_solve_start(r) ==
    /\ cfg.engine = "NSGA2"
    /\ pc[r] = "start"
    /\ setup_run(r, NSGA2_wants_mpi(r))
    /\ UNCHANGED <<cfg, loc, script, ad, wk, grp, gd>>

\* the first variable that is not continuous, as the loop over _variables meets it
RECURSIVE var_error(_, _)
var_error(vtypes, i) ==
    IF i > Len(vtypes) THEN ""
    ELSE IF vtypes[i] = "c" THEN var_error(vtypes, i + 1)
    ELSE IF vtypes[i] = "i" THEN "IOError: integer design variables"
    ELSE IF vtypes[i] = "d" THEN "IOError: discrete design variables"
    ELSE var_error(vtypes, i + 1)

\* MMFD.__solve__: variables, constraints and options, in the order of the code
MMFD_config_error(r) ==
    LET o == cfg.options
        ncon == Len(cfg.problem.ctypes)
    IN  IF var_error(cfg.problem.vtypes, 1) # "" THEN var_error(cfg.problem.vtypes, 1)
        ELSE IF ~(ncon > 0) THEN "IOError: unconstrained problems"
        ELSE IF ~(o.IOPT >= 0 /\ o.IOPT <= 1) THEN "IOError: Incorrect Feasible Directions Approach"
        ELSE IF ~(o.IONED >= 0 /\ o.IONED <= 3) THEN "IOError: Incorrect One-Dimensional Search Method"
        ELSE IF drv[r].myrank = 0 /\ ~(o.IPRINT >= 0 /\ o.IPRINT <= 2)
             THEN "IOError: Incorrect Output Level Setting"
        ELSE ""

\* NSGA2.__solve__: variables, constraints and options, in the order of the code
NSGA2_config_error(r) ==
    LET o == cfg.options
        m == Len(cfg.problem.ctypes)
    IN  IF var_error(cfg.problem.vtypes, 1) # "" THEN var_error(cfg.problem.vtypes, 1)
        ELSE IF m > 0 /\ \E j \in 1..m : cfg.problem.ctypes[j] = "e"
             THEN "IOError: equality constraints"
        ELSE IF ~(o.PrintOut >= 0 /\ o.PrintOut <= 2) THEN "IOError: Incorrect Stopping Criteria Setting"
        ELSE ""

\* MMFD.__solve__, from "Variables Handling" to the initial call of mmfdfun
MMFD_setup(r) ==
    /\ cfg.engine = "MMFD"
    /\ pc[r] = "validate"
    /\ IF MMFD_config_error(r) # ""
       THEN /\ pc' = [pc EXCEPT ![r] = "raised"]
            /\ drv' = [drv EXCEPT ![r].err = MMFD_config_error(r)]
       ELSE /\ pc' = [pc EXCEPT ![r] = "init_eval"]
            /\ UNCHANGED drv
    /\ UNCHANGED <<cfg, loc, hos_file, log_file, disk, script, ghost, ad, wk, grp, gd>>

\* NSGA2.__solve__, from "Variables Handling" to the range check of PrintOut
NSGA2_setup(r) ==
    /\ cfg.engine = "NSGA2"
    /\ pc[r] = "validate"
    /\ IF NSGA2_config_error(r) # ""
       THEN /\ pc' = [pc EXCEPT ![r] = "raised"]
            /\ drv' = [drv EXCEPT ![r].err = NSGA2_config_error(r)]
       ELSE /\ pc' = [pc EXCEPT ![r] = "seed"]
            /\ UNCHANGED drv
    /\ UNCHANGED <<cfg, loc, hos_file, log_file, disk, script, ghost, ad, wk, grp, gd>>


----------------------------------------------------------------------------
(* The collective broadcast: comm.bcast(value, root=0) is blocking and        *)
(* collective; the n-th call of every process is one broadcast, whatever line *)
(* of the code each process makes it from.                                    *)

BSites == {"fun_bflag", "fun_bpay", "grd_bflag", "grd_bpay", "seed_b"}
FlagSites == {"fun_bflag", "grd_bflag"}
PaySites == {"fun_bpay", "grd_bpay"}

SiteKind(site) ==
    IF site \in FlagSites THEN "flag" ELSE IF site \in PaySites THEN "payload" ELSE "seed"

\* the value rank 0 passes to its call
RootValue ==
    IF pc[0] \in FlagSites THEN drv[0].h_start
    ELSE IF pc[0] \in PaySites THEN loc[0].vals
    ELSE drv[0].seed

AfterBcast(site) ==
    CASE site = "fun_bflag" -> "fun_mid"
      [] site = "fun_bpay"  -> "fun_tail"
      [] site = "grd_bflag" -> "grd_mid"
      [] site = "grd_bpay"  -> "grd_tail"
      [] site = "seed_b"    -> "seed_tail"

\* Bcast with the flag not assigned from the call: every process keeps its own flag
Bcast_keeps_flag ==
    /\ \A r \in Procs : pc[r] \in BSites
    /\ LET k == SiteKind(pc[0])
           v == RootValue
       IN  /\ drv' = [r \in Procs |->
                       IF pc[r] = "seed_b"
                       THEN [drv[r] EXCEPT !.seed = IF k = "seed" THEN v ELSE "garbled"]
                       ELSE drv[r]]
           /\ loc' = [r \in Procs |->
                       IF pc[r] \in PaySites
                       THEN [loc[r] EXCEPT !.vals = IF k = "payload" THEN v ELSE <<"garbled", 0>>]
                       ELSE loc[r]]
    /\ pc' = [r \in Procs |-> AfterBcast(pc[r])]
    /\ ghost' = [ghost EXCEPT !.bcasts = [r \in Procs |-> Append(@[r], SiteKind(pc[r]))]]
    /\ UNCHANGED <<cfg, hos_file, log_file, disk, script, ad, wk, grp, gd>>

\* Bcast with the record not assigned from the call: every process keeps its own
Bcast_keeps_record ==
    /\ \A r \in Procs : pc[r] \in BSites
    /\ LET k == SiteKind(pc[0])
           v == RootValue
       IN  /\ drv' = [r \in Procs |->
                       IF pc[r] \in FlagSites
                       THEN [drv[r] EXCEPT !.h_start = IF k = "flag" THEN v ELSE TRUE]
                       ELSE IF pc[r] = "seed_b"
                       THEN [drv[r] EXCEPT !.seed = IF k = "seed" THEN v ELSE "garbled"]
                       ELSE drv[r]]
           /\ loc' = loc
    /\ pc' = [r \in Procs |-> AfterBcast(pc[r])]
    /\ ghost' = [ghost EXCEPT !.bcasts = [r \in Procs |-> Append(@[r], SiteKind(pc[r]))]]
    /\ UNCHANGED <<cfg, hos_file, log_file, disk, script, ad, wk, grp, gd>>

\* what a process holds after its call returned rank 0's value: the flag site assigns
\* self.h_start, the payload site the record, the seed site the seed (a value of
\* another call is taken as it comes: any non-empty object is true as a flag)
Bcast ==
    /\ \A r \in Procs : pc[r] \in BSites
    /\ LET k == SiteKind(pc[0])
           v == RootValue
       IN  /\ drv' = [r \in Procs |->
                       IF pc[r] \in FlagSites
                       THEN [drv[r] EXCEPT !.h_start = IF k = "flag" THEN v ELSE TRUE]
                       ELSE IF pc[r] = "seed_b"
                       THEN [drv[r] EXCEPT !.seed = IF k = "seed" THEN v ELSE "garbled"]
                       ELSE drv[r]]
           /\ loc' = [r \in Procs |->
                       IF pc[r] \in PaySites
                       THEN [loc[r] EXCEPT !.vals = IF k = "payload" THEN v ELSE <<"garbled", 0>>]
                       ELSE loc[r]]
    /\ pc' = [r \in Procs |-> AfterBcast(pc[r])]
    /\ ghost' = [ghost EXCEPT !.bcasts = [r \in Procs |-> Append(@[r], SiteKind(pc[r]))]]
    /\ UNCHANGED <<cfg, hos_file, log_file, disk, script, ad, wk, grp, gd>>

\* a callback reaching "if self.pll: ... Bcast(...)": the call, or the NameError of a
\* Bcast that no branch of the version test has bound
AtBcast(r, site) == IF drv[r].Bcast = "unbound" THEN "raised" ELSE site

----------------------------------------------------------------------------
(* The evaluation adapter: mmfdfun (MMFD) and objconfunc (NSGA2) *)

\* replay_read with the flag taken afresh from the hot_start argument on every call
replay_read_reset(r, kind) ==
    IF drv[r].myrank = 0 /\ cfg.hot_start # "False"
    THEN LET rd == hos_read(hos_file, kind)
         IN  IF rd.hist_end /\ drv[r].h_start
             THEN [h_start |-> FALSE, hos |-> hist_close(rd.h), vals |-> NoVals,
                   ops |-> {<<r, "read">>, <<r, "close_hos">>}]
             ELSE [h_start |-> TRUE, hos |-> rd.h, vals |-> rd.vals,
                   ops |-> {<<r, "read">>}]
    ELSE [h_start |-> drv[r].h_start, hos |-> hos_file, vals |-> NoVals, ops |-> {}]

\* replay_read with the flag left set when the store reports its end
replay_read_stays(r, kind) ==
    IF drv[r].myrank = 0 /\ drv[r].h_start
    THEN LET rd == hos_read(hos_file, kind)
         IN  IF rd.hist_end
             THEN [h_start |-> TRUE, hos |-> hist_close(rd.h), vals |-> NoVals,
                   ops |-> {<<r, "read">>, <<r, "close_hos">>}]
             ELSE [h_start |-> TRUE, hos |-> rd.h, vals |-> rd.vals,
                   ops |-> {<<r, "read">>}]
    ELSE [h_start |-> drv[r].h_start, hos |-> hos_file, vals |-> NoVals, ops |-> {}]

\* "if (myrank == 0): if self.h_start: read ...": the read of rank 0 and what it leaves
\* in self.h_start, in the store and in the locals ff, gg, fail (or dff, dgg)
replay_read(r, kind) ==
    IF drv[r].myrank = 0 /\ drv[r].h_start
    THEN LET rd == hos_read(hos_file, kind)
         IN  IF rd.hist_end
             THEN [h_start |-> FALSE, hos |-> hist_close(rd.h), vals |-> NoVals,
                   ops |-> {<<r, "read">>, <<r, "close_hos">>}]
             ELSE [h_start |-> TRUE, hos |-> rd.h, vals |-> rd.vals,
                   ops |-> {<<r, "read">>}]
    ELSE [h_start |-> drv[r].h_start, hos |-> hos_file, vals |-> NoVals, ops |-> {}]

\* the callbacks an engine has: mmfd.mmfd takes mmfdfun and mmfdgrd, nsga2 objconfunc.
\* The engine is opaque: it issues its next callback, or returns. Every process runs
\* the same engine on the same inputs, so the first process to get to the n-th step
\* of the engine decides it and the others follow.
EngineIssues(r, c) ==
    /\ pc[r] = "engine"
    /\ IF drv[r].ip < Len(script)
       THEN script[drv[r].ip + 1] = c /\ UNCHANGED script
       ELSE Len(script) < MaxCalls /\ script' = Append(script, c)

\* opt_problem.obj_fun(xn): the result for the point of this call
obj_fun(r) == <<"live", ghost.calls[r]>>

\* the adapter from its first line to the broadcast of the flag
fun_enter(r, byEngine) ==
    /\ LET rd == replay_read(r, "eval")
       IN  /\ drv' = [drv EXCEPT ![r].h_start = rd.h_start,
                                 ![r].ip = IF byEngine THEN @ + 1 ELSE @,
                                 ![r].err = IF drv[r].pll /\ drv[r].Bcast = "unbound"
                                            THEN "NameError" ELSE @]
           /\ hos_file' = rd.hos
           /\ loc' = [loc EXCEPT ![r].vals = rd.vals]
           /\ ghost' = [ghost EXCEPT
                          !.storeOps = @ \cup rd.ops,
                          !.calls[r] = @ + 1,
                          !.exhaustedAt = IF Exhausted(rd) THEN ghost.calls[r] + 1 ELSE @,
                          !.readsAtExh = IF Exhausted(rd) THEN rd.hos.reads ELSE @]
    /\ pc' = [pc EXCEPT ![r] = IF drv[r].pll THEN AtBcast(r, "fun_bflag") ELSE "fun_mid"]
    /\ UNCHANGED <<cfg, log_file, disk, ad, wk, grp, gd>>

\* what a call leaves to be observed: the values it returns, the flag it ended with,
\* whether it called obj_fun (or getGrad)
CallOut(r, kind, vals, evaluated) ==
    [kind |-> kind, val |-> vals, flag |-> drv[r].h_start, evaluated |-> evaluated]

\* "log_file.write(x,'x'); log_file.write(ff,'obj'); log_file.write(gg,'con');
\*  log_file.write(fail,'fail')", x being the point of the call
log_eval(l, x, vals) ==
    log_write(log_write(log_write(log_write(l, <<"x", x>>), <<"obj", vals>>),
                        <<"con", vals>>), <<"fail", vals>>)

\* fun_finish with the history written by every process, not by rank 0 alone
fun_finish_anyrank(r, vals, evaluated) ==
    /\ log_file' = IF drv[r].sto_hst
                   THEN log_eval(log_file, ghost.calls[r], vals) ELSE log_file
    /\ ghost' = [ghost EXCEPT
                   !.storeOps = IF drv[r].sto_hst
                                THEN @ \cup {<<r, "write">>} ELSE @,
                   !.evals[r] = IF evaluated THEN @ + 1 ELSE @,
                   !.outs[r] = Append(@, CallOut(r, "fun", vals, evaluated))]
    /\ loc' = [loc EXCEPT ![r].vals = vals, ![r].out = vals]
    /\ pc' = [pc EXCEPT ![r] = IF drv[r].inEngine THEN "engine" ELSE "run_engine"]
    /\ UNCHANGED <<cfg, drv, hos_file, disk, script, ad, wk, grp, gd>>

\* "Store History" and the assignment of f and g; the adapter returns to its caller:
\* to the engine, or to __solve__ for the initial evaluation of MMFD
fun_finish(r, vals, evaluated) ==
    /\ log_file' = IF drv[r].myrank = 0 /\ drv[r].sto_hst
                   THEN log_eval(log_file, ghost.calls[r], vals) ELSE log_file
    /\ ghost' = [ghost EXCEPT
                   !.storeOps = IF drv[r].myrank = 0 /\ drv[r].sto_hst
                                THEN @ \cup {<<r, "write">>} ELSE @,
                   !.evals[r] = IF evaluated THEN @ + 1 ELSE @,
                   !.outs[r] = Append(@, CallOut(r, "fun", vals, evaluated))]
    /\ loc' = [loc EXCEPT ![r].vals = vals, ![r].out = vals]
    /\ pc' = [pc EXCEPT ![r] = IF drv[r].inEngine THEN "engine" ELSE "run_engine"]
    /\ UNCHANGED <<cfg, drv, hos_file, disk, script, ad, wk, grp, gd>>

\* fun_mid with "else:" for "elif not self.h_start:"
fun_mid_else(r) ==
    /\ pc[r] = "fun_mid"
    /\ IF drv[r].h_start /\ drv[r].pll
       THEN /\ pc' = [pc EXCEPT ![r] = AtBcast(r, "fun_bpay")]
            /\ UNCHANGED <<cfg, drv, loc, hos_file, log_file, disk, script, ghost, ad, wk, grp, gd>>
       ELSE fun_finish(r, obj_fun(r), TRUE)

\* "if self.h_start and self.pll: Bcast(record) / elif not self.h_start: obj_fun",
\* and, unless the process waits in the broadcast, the rest of the adapter
fun_mid(r) ==
    /\ pc[r] = "fun_mid"
    /\ IF drv[r].h_start /\ drv[r].pll
       THEN /\ pc' = [pc EXCEPT ![r] = AtBcast(r, "fun_bpay")]
            /\ UNCHANGED <<cfg, drv, loc, hos_file, log_file, disk, script, ghost, ad, wk, grp, gd>>
       ELSE IF ~drv[r].h_start
       THEN fun_finish(r, obj_fun(r), TRUE)
       ELSE fun_finish(r, loc[r].vals, FALSE)

\* the adapter after the broadcast of the record
fun_tail(r) ==
    /\ pc[r] = "fun_tail"
    /\ fun_finish(r, loc[r].vals, FALSE)

\* "finit,ginit = mmfdfun([],[],xx,ff,gg)" of MMFD.__solve__
MMFD_initial_eval(r) ==
    /\ cfg.engine = "MMFD"
    /\ pc[r] = "init_eval"
    /\ fun_enter(r, FALSE)
    /\ UNCHANGED script

mmfdfun(r) == cfg.engine = "MMFD" /\ EngineIssues(r, "fun") /\ fun_enter(r, TRUE)
mmfdfun_mid(r) == cfg.engine = "MMFD" /\ fun_mid(r)
mmfdfun_tail(r) == cfg.engine = "MMFD" /\ fun_tail(r)

objconfunc(r) == cfg.engine = "NSGA2" /\ EngineIssues(r, "fun") /\ fun_enter(r, TRUE)
objconfunc_mid(r) == cfg.engine = "NSGA2" /\ fun_mid(r)
objconfunc_tail(r) == cfg.engine = "NSGA2" /\ fun_tail(r)

----------------------------------------------------------------------------
(* The gradient bridge: mmfdgrd *)

\* "if not self.h_start: getGrad(x, group_ids, [f], g)" (the matrices for the point
\* of this call), "Store History", the assignment of df and dg
grd_finish(r, calls) ==
    LET v == IF ~drv[r].h_start THEN <<"livegrad", calls>> ELSE loc[r].vals
    IN  /\ loc' = [loc EXCEPT ![r].vals = v, ![r].out = v]
        /\ log_file' = IF drv[r].sto_hst /\ drv[r].myrank = 0
                       THEN log_write(log_write(log_file, <<"grad_obj", v>>),
                                      <<"grad_con", v>>)
                       ELSE log_file
        /\ ghost' = [ghost EXCEPT
                       !.storeOps = IF drv[r].sto_hst /\ drv[r].myrank = 0
                                    THEN @ \cup {<<r, "write">>} ELSE @,
                       !.calls[r] = calls,
                       !.outs[r] = Append(@, CallOut(r, "grd", v, ~drv[r].h_start))]
        /\ pc' = [pc EXCEPT ![r] = "engine"]

\* mmfdgrd from its first line: with the flag set, the read of rank 0 up to the
\* broadcast of the flag; with the flag clear, the whole bridge
mmfdgrd(r) ==
    /\ cfg.engine = "MMFD"
    /\ EngineIssues(r, "grd")
    /\ IF drv[r].h_start
       THEN LET rd == replay_read(r, "grad")
            IN  /\ drv' = [drv EXCEPT ![r].h_start = rd.h_start,
                                      ![r].ip = @ + 1,
                                      ![r].err = IF drv[r].pll /\ drv[r].Bcast = "unbound"
                                                 THEN "NameError" ELSE @]
                /\ hos_file' = rd.hos
                /\ loc' = [loc EXCEPT ![r].vals = rd.vals]
                /\ ghost' = [ghost EXCEPT
                               !.storeOps = @ \cup rd.ops,
                               !.calls[r] = @ + 1,
                               !.exhaustedAt = IF Exhausted(rd) THEN ghost.calls[r] + 1 ELSE @,
                               !.readsAtExh = IF Exhausted(rd) THEN rd.hos.reads ELSE @]
                /\ pc' = [pc EXCEPT ![r] = IF drv[r].pll THEN AtBcast(r, "grd_bflag")
                                           ELSE "grd_mid"]
                /\ UNCHANGED log_file
       ELSE /\ grd_finish(r, ghost.calls[r] + 1)
            /\ drv' = [drv EXCEPT ![r].ip = @ + 1]
            /\ UNCHANGED hos_file
    /\ UNCHANGED <<cfg, disk, ad, wk, grp, gd>>

\* "if self.h_start and self.pll: [dff,dgg] = Bcast([dff,dgg],root=0)", and, unless
\* the process waits in the broadcast, the rest of the bridge
mmfdgrd_mid(r) ==
    /\ cfg.engine = "MMFD"
    /\ pc[r] = "grd_mid"
    /\ IF drv[r].h_start /\ drv[r].pll
       THEN /\ pc' = [pc EXCEPT ![r] = AtBcast(r, "grd_bpay")]
            /\ UNCHANGED <<loc, log_file, ghost>>
       ELSE grd_finish(r, ghost.calls[r])
    /\ UNCHANGED <<cfg, drv, hos_file, disk, script, ad, wk, grp, gd>>

\* the bridge after the broadcast of the matrices
mmfdgrd_tail(r) ==
    /\ cfg.engine = "MMFD"
    /\ pc[r] = "grd_tail"
    /\ grd_finish(r, ghost.calls[r])
    /\ UNCHANGED <<cfg, drv, hos_file, disk, script, ad, wk, grp, gd>>

----------------------------------------------------------------------------
(* The engine call *)

\* MMFD.__solve__ after the initial evaluation: tolerances, workspace, mmfd.mmfd(...)
MMFD_run_engine(r) ==
    /\ cfg.engine = "MMFD"
    /\ pc[r] = "run_engine"
    /\ drv' = [drv EXCEPT ![r].inEngine = TRUE]
    /\ pc' = [pc EXCEPT ![r] = "engine"]
    /\ UNCHANGED <<cfg, loc, hos_file, log_file, disk, script, ghost, ad, wk, grp, gd>>

\* a seed block in which a hot start keeps a seed option that is not 0
NSGA2_seed_keeps_option(r) ==
    /\ cfg.engine = "NSGA2"
    /\ pc[r] = "seed"
    /\ LET opt == IF cfg.options.seed = 0 THEN "zero" ELSE "option"
           s1 == IF drv[r].myrank = 0 /\ opt = "zero" /\ ~drv[r].h_start THEN "time" ELSE opt
           s2 == IF drv[r].myrank = 0 /\ drv[r].h_start /\ opt = "zero" THEN "hist" ELSE s1
       IN  /\ drv' = [drv EXCEPT ![r].seed = s2,
                                 ![r].err = IF drv[r].pll /\ drv[r].Bcast = "unbound"
                                            THEN "NameError" ELSE @]
           /\ IF drv[r].myrank = 0 /\ drv[r].h_start
              THEN /\ hos_file' = [hos_file EXCEPT !.reads = @ + 1]
                   /\ ghost' = StoreOp(r, "read")
              ELSE UNCHANGED <<hos_file, ghost>>
    /\ pc' = [pc EXCEPT ![r] = IF drv[r].pll THEN AtBcast(r, "seed_b") ELSE "seed_tail"]
    /\ UNCHANGED <<cfg, loc, log_file, disk, script, ad, wk, grp, gd>>

\* NSGA2.__solve__: the seed, chosen or read by rank 0, up to its broadcast
NSGA2_seed(r) ==
    /\ cfg.engine = "NSGA2"
    /\ pc[r] = "seed"
    /\ LET opt == IF cfg.options.seed = 0 THEN "zero" ELSE "option"
           s1 == IF drv[r].myrank = 0 /\ opt = "zero" /\ ~drv[r].h_start THEN "time" ELSE opt
           s2 == IF drv[r].myrank = 0 /\ drv[r].h_start THEN "hist" ELSE s1
       IN  /\ drv' = [drv EXCEPT ![r].seed = s2,
                                 ![r].err = IF drv[r].pll /\ drv[r].Bcast = "unbound"
                                            THEN "NameError" ELSE @]
           /\ IF drv[r].myrank = 0 /\ drv[r].h_start
              THEN /\ hos_file' = [hos_file EXCEPT !.reads = @ + 1]
                   /\ ghost' = StoreOp(r, "read")
              ELSE UNCHANGED <<hos_file, ghost>>
    /\ pc' = [pc EXCEPT ![r] = IF drv[r].pll THEN AtBcast(r, "seed_b") ELSE "seed_tail"]
    /\ UNCHANGED <<cfg, loc, log_file, disk, script, ad, wk, grp, gd>>

\* NSGA2.__solve__: the seed is logged, then nsga2.set_pyfunc and nsga2.nsga2(...)
NSGA2_run_engine(r) ==
    /\ cfg.engine = "NSGA2"
    /\ pc[r] = "seed_tail"
    /\ IF drv[r].sto_hst /\ drv[r].myrank = 0
       THEN /\ log_file' = log_write(log_file, <<"seed", <<drv[r].seed, 0>>>>)
            /\ ghost' = StoreOp(r, "write")
       ELSE UNCHANGED <<log_file, ghost>>
    /\ drv' = [drv EXCEPT ![r].inEngine = TRUE]
    /\ pc' = [pc EXCEPT ![r] = "engine"]
    /\ UNCHANGED <<cfg, loc, hos_file, disk, script, ad, wk, grp, gd>>

\* the engine returns to __solve__
EngineReturns(r) ==
    /\ pc[r] = "engine"
    /\ IF drv[r].ip < Len(script)
       THEN script[drv[r].ip + 1] = "ret" /\ UNCHANGED script
       ELSE script' = Append(script, "ret")
    /\ pc' = [pc EXCEPT ![r] = "post"]
    /\ drv' = [drv EXCEPT ![r].ip = @ + 1]
    /\ UNCHANGED <<cfg, loc, hos_file, log_file, disk, ghost, ad, wk, grp, gd>>

----------------------------------------------------------------------------
(* After the engine call *)

\* the name of the temporary store of a store name: name + '_tmp'
TmpName(name) == IF name = "hist" THEN "hist_tmp" ELSE name

\* post_close going on to the replacement without closing the store just written
post_close_leaves_open(r) ==
    /\ pc[r] = "post"
    /\ IF drv[r].myrank = 0 /\ drv[r].sto_hst
       THEN /\ IF drv[r].tmp_file
               THEN /\ hos_file' = hist_close(hos_file)
                    /\ ghost' = StoreOp(r, "close_hos")
                    /\ pc' = [pc EXCEPT ![r] = "remove"]
                    /\ UNCHANGED log_file
               ELSE /\ log_file' = hist_close(log_file)
                    /\ ghost' = StoreOp(r, "close_log")
                    /\ pc' = [pc EXCEPT ![r] = "results"]
                    /\ UNCHANGED hos_file
       ELSE /\ pc' = [pc EXCEPT ![r] = "results"]
            /\ UNCHANGED <<hos_file, log_file, ghost>>
    /\ UNCHANGED <<cfg, drv, loc, disk, script, ad, wk, grp, gd>>

\* "if (myrank == 0): if self.sto_hst: log_file.close(); if tmp_file: hos_file.close()"
post_close(r) ==
    /\ pc[r] = "post"
    /\ IF drv[r].myrank = 0 /\ drv[r].sto_hst
       THEN /\ log_file' = hist_close(log_file)
            /\ IF drv[r].tmp_file
               THEN /\ hos_file' = hist_close(hos_file)
                    /\ ghost' = [ghost EXCEPT !.storeOps = @ \cup
                                   {<<r, "close_log">>, <<r, "close_hos">>}]
                    /\ pc' = [pc EXCEPT ![r] = "remove"]
               ELSE /\ ghost' = StoreOp(r, "close_log")
                    /\ pc' = [pc EXCEPT ![r] = "results"]
                    /\ UNCHANGED hos_file
       ELSE /\ pc' = [pc EXCEPT ![r] = "results"]
            /\ UNCHANGED <<hos_file, log_file, ghost>>
    /\ UNCHANGED <<cfg, drv, loc, disk, script, ad, wk, grp, gd>>

\* "os.remove(name+'.cue'); os.remove(name+'.bin')"
post_remove(r) ==
    /\ pc[r] = "remove"
    /\ disk' = [disk EXCEPT ![hos_file.name] = "none"]
    /\ ghost' = StoreOp(r, "remove")
    /\ pc' = [pc EXCEPT ![r] = "rename"]
    /\ UNCHANGED <<cfg, drv, loc, hos_file, log_file, script, ad, wk, grp, gd>>

\* "os.rename(name+'_tmp.cue',name+'.cue'); os.rename(name+'_tmp.bin',name+'.bin')"
post_rename(r) ==
    /\ pc[r] = "rename"
    /\ disk' = [disk EXCEPT ![hos_file.name] = disk[TmpName(hos_file.name)],
                            ![TmpName(hos_file.name)] = "none"]
    /\ ghost' = StoreOp(r, "rename")
    /\ pc' = [pc EXCEPT ![r] = "results"]
    /\ UNCHANGED <<cfg, drv, loc, hos_file, log_file, script, ad, wk, grp, gd>>

\* NSGA2.__solve__: "nfeval = 0"; the int is handed to nsga2.nsga2 by value and the
\* name is not assigned again
nfeval == 0

\* NSGA2.__solve__: "sol_evals = nfeval", and 'fevals':nfeval of the return value
NSGA2_sol_evals == nfeval

\* MMFD.__solve__: "sol_evals = nfun[0] + ngrd[0]*nvar", of the counters the engine
\* keeps in the arrays nfun and ngrd
MMFD_sol_evals == "nfun[0] + ngrd[0]*nvar"

\* "Store Results" and the return of __solve__
store_results(r) ==
    /\ pc[r] = "results"
    /\ pc' = [pc EXCEPT ![r] = "done"]
    /\ drv' = [drv EXCEPT ![r].sol_evals = IF cfg.engine = "NSGA2" THEN NSGA2_sol_evals
                                           ELSE MMFD_sol_evals]
    /\ UNCHANGED <<cfg, loc, hos_file, log_file, disk, script, ghost, ad, wk, grp, gd>>

----------------------------------------------------------------------------
(* The solve of one driver on every process of the run *)

Next ==
    \/ \E r \in Procs : MMFD_solve_start(r)
    \/ \E r \in Procs : NSGA2_solve_start(r)
    \/ \E r \in Procs : MMFD_setup(r)
    \/ \E r \in Procs : NSGA2_setup(r)
    \/ \E r \in Procs : MMFD_initial_eval(r)
    \/ \E r \in Procs : MMFD_run_engine(r)
    \/ \E r \in Procs : NSGA2_seed(r)
    \/ \E r \in Procs : NSGA2_run_engine(r)
    \/ \E r \in Procs : mmfdfun(r)
    \/ \E r \in Procs : mmfdfun_mid(r)
    \/ \E r \in Procs : mmfdfun_tail(r)
    \/ \E r \in Procs : objconfunc(r)
    \/ \E r \in Procs : objconfunc_mid(r)
    \/ \E r \in Procs : objconfunc_tail(r)
    \/ \E r \in Procs : mmfdgrd(r)
    \/ \E r \in Procs : mmfdgrd_mid(r)
    \/ \E r \in Procs : mmfdgrd_tail(r)
    \/ \E r \in Procs : EngineReturns(r)
    \/ \E r \in Procs : post_close(r)
    \/ \E r \in Procs : post_remove(r)
    \/ \E r \in Procs : post_rename(r)
    \/ \E r \in Procs : store_results(r)
    \/ Bcast

Spec == Init /\ [][Next]_vars

----------------------------------------------------------------------------
(* Several solves on one driver object: __solve__ is called again once the    *)
(* call before it has returned or raised on every process. The object keeps   *)
(* its attributes; the locals of __solve__, the stores and the files named by *)
(* the arguments are those of the new call.                                   *)

\* the arguments a later call can have: the object, its engine and the mpi4py
\* installed are those of the first call; the options and the problem are the
\* default ones, also after a call that raised on its options or its problem; the
\* store it replays holds at most one record of each kind
LaterInputs ==
    {c \in [ engine : {cfg.engine}, pll_type : {cfg.pll_type}, sens_mode : SensModes,
             mpi : {cfg.mpi}, store_hst : StoreHstInputs, hot_start : HotStartInputs,
             options : {DefaultOptions}, problem : {DefaultProblem},
             histEval : {0, 1}, histGrad : {0, 1} ] : c \in Inputs}

\* the attributes of the object of process q, the locals of __solve__ being new
CalledAgain(q) ==
    [drv[q] EXCEPT !.tmp_file = FALSE, !.Bcast = "unbound", !.err = "",
                   !.inEngine = FALSE, !.ip = 0, !.seed = "option",
                   !.sol_evals = "unset", !.printed = ""]

\* the next call of __solve__ on the same object(s); when the number of processes
\* that matter changes, each takes the object of one process of the earlier call
solve_again ==
    /\ \A r \in Procs : pc[r] \in {"done", "raised"}
    /\ cfg' \in LaterInputs
    /\ pc' = [r \in Procs' |-> "start"]
    /\ \E q \in Procs :
          drv' = [r \in Procs' |-> CalledAgain(IF Procs' = Procs THEN r ELSE q)]
    /\ loc' = [r \in Procs' |-> [vals |-> NoVals, out |-> NoVals]]
    /\ hos_file' = [name |-> "False", open |-> FALSE, closes |-> 0,
                    ecur |-> 0, gcur |-> 0, reads |-> 0]
    /\ log_file' = [name |-> "False", open |-> FALSE, closes |-> 0, recs |-> <<>>]
    /\ disk' = InitialDisk'
    /\ script' = <<>>
    /\ ghost' = [ storeOps |-> {},
                  bcasts |-> [r \in Procs' |-> <<>>],
                  evals |-> [r \in Procs' |-> 0],
                  calls |-> [r \in Procs' |-> 0],
                  outs |-> [r \in Procs' |-> <<>>],
                  exhaustedAt |-> 0, readsAtExh |-> 0 ]
    /\ UNCHANGED <<ad, wk, grp, gd>>

NextSolves ==
    \/ Next
    \/ solve_again

SpecSolves == Init /\ [][NextSolves]_vars


----------------------------------------------------------------------------
(* The values of one adapter call and of the result assembly (SpecAdapter).   *)
(* Numbers are kept as mantissa and decimal exponent, m * 10^e, so that the    *)
(* sentinel 10.E+20 and its negation are themselves.                           *)

Num(m) == [m |-> m, e |-> 0]
\* "inf = 10.E+20  # define a value for infinity"
inf == [m |-> 10, e |-> 20]
\* unary minus
neg(x) == [m |-> 0 - x.m, e |-> x.e]

\* a Python value: a scalar, or a sequence (list or array)
Scalar(v) == <<"scalar", v>>
Array(seq) == <<"array", seq>>
IsScalar(pv) == pv[1] = "scalar"

\* what obj_fun returns for a problem: one objective as a scalar, several as a list
obj_fun_result(nobj, ff, gg, fail) ==
    [ff |-> IF nobj = 1 THEN Scalar(ff[1]) ELSE Array(ff), gg |-> Array(gg), fail |-> fail]

\* History.write(value, ident) then History.read(ident): every value is stored as a
\* flat array, and read returns, per identifier, the list of the arrays read
history_roundtrip(res) ==
    [obj  |-> <<IF IsScalar(res.ff) THEN <<res.ff[2]>> ELSE res.ff[2]>>,
     con  |-> <<res.gg[2]>>,
     fail |-> <<<<res.fail>>>>]

\* "[ff,gg,fail] = [vals['obj'][0][0],vals['con'][0],int(vals['fail'][0][0])]"
replayed_result(vals) ==
    [ff |-> Scalar(vals.obj[1][1]), gg |-> Array(vals.con[1]), fail |-> vals.fail[1][1]]

\* objconfunc with the sentinel of a failed point given the sign of a feasible one
objconfunc_assign_plus(nobj, ncon, res) ==
    IF res.fail = 1
    THEN [f |-> [i \in 1..nobj |-> inf], g |-> [i \in 1..ncon |-> inf], err |-> ""]
    ELSE [f |-> IF nobj = 1 THEN <<res.ff[2]>> ELSE res.ff[2],
          g |-> [i \in 1..ncon |-> neg(res.gg[2][i])], err |-> ""]

\* objconfunc, from "if (fail == 1):" to its return: the buffers f and g it hands to
\* the engine (ff[i] of a scalar raises IndexError)
objconfunc_assign(nobj, ncon, res) ==
    IF res.fail = 1
    THEN [f |-> [i \in 1..nobj |-> inf], g |-> [i \in 1..ncon |-> neg(inf)], err |-> ""]
    ELSE IF nobj = 1
    THEN [f |-> <<res.ff[2]>>, g |-> [i \in 1..ncon |-> neg(res.gg[2][i])], err |-> ""]
    ELSE IF IsScalar(res.ff)
    THEN [f |-> <<>>, g |-> <<>>, err |-> "IndexError"]
    ELSE [f |-> [i \in 1..nobj |-> res.ff[2][i]],
          g |-> [i \in 1..ncon |-> neg(res.gg[2][i])], err |-> ""]

\* mmfdfun, from "Objective Assigment" to its return: f and g as it returns them
mmfdfun_assign(ncon, res) ==
    [f |-> <<res.ff[2]>>, g |-> [i \in 1..ncon |-> res.gg[2][i]], err |-> ""]

\* the NSGA2 assembler storing the engine's g as it is
NSGA2_sol_cons_asis(m, g) == [i \in 1..m |-> g[i]]

\* NSGA2.__solve__, "Store Results": sol_cons[key].value = -g[i]
NSGA2_sol_cons(m, g) == [i \in 1..m |-> neg(g[i])]

\* MMFD.__solve__, "Store Results": sol_cons[key].value = gg[i]
MMFD_sol_cons(ncon, g) == [i \in 1..ncon |-> g[i]]

ValuesIn == {Num(-1), Num(2)}

\* the inputs of one call: the problem's sizes, the values obj_fun returns at the
\* point, and whether the call evaluates or replays the record of an earlier run
AdInputs ==
    { a \in [ engine : Engines, nobj : 1..MaxObj, ncon : 0..MaxCon,
              fail : {0, 1}, mode : {"live", "replay"} ] :
        a.engine = "MMFD" => a.nobj = 1 /\ a.ncon >= 1 }

AdIdle == [stage |-> "idle"]

AdInit ==
    \E a \in AdInputs :
    \E ff \in [1..a.nobj -> ValuesIn] :
    \E gg \in [1..a.ncon -> ValuesIn] :
        ad = [ stage |-> "call", engine |-> a.engine, nobj |-> a.nobj, ncon |-> a.ncon,
               ff |-> ff, gg |-> gg, fail |-> a.fail, mode |-> a.mode,
               f |-> <<>>, g |-> <<>>, err |-> "", sol_cons |-> <<>>,
               rec |-> <<>>, f0 |-> <<>>, g0 |-> <<>>, rec2 |-> <<>> ]

\* the result the adapter works on: evaluated in the run that writes the store, read
\* back from the store in the hot-start run that follows it
AdResult ==
    IF ad.stage = "call" THEN obj_fun_result(ad.nobj, ad.ff, ad.gg, ad.fail)
    ELSE replayed_result(ad.rec)

\* after a live call: the call has returned, or, when a hot start is to replay it,
\* its run has ended with the record in the store
AfterLive(out) ==
    [ad EXCEPT !.stage = IF ad.mode = "live" THEN "returned" ELSE "logged",
               !.f = out.f, !.g = out.g, !.err = out.err,
               !.f0 = out.f, !.g0 = out.g,
               !.rec = history_roundtrip(AdResult)]

\* after a replayed call: the call has returned or raised, and the record is logged
\* again by "Store History"
AfterReplay(out) ==
    [ad EXCEPT !.stage = IF out.err = "" THEN "returned" ELSE "raised",
               !.f = out.f, !.g = out.g, !.err = out.err,
               !.rec2 = history_roundtrip(AdResult)]

\* one live call of objconfunc by the engine, with the history stored
ad_objconfunc ==
    /\ ad.stage = "call" /\ ad.engine = "NSGA2"
    /\ ad' = AfterLive(objconfunc_assign(ad.nobj, ad.ncon, AdResult))
    /\ UNCHANGED <<solveVars, wk, grp, gd>>

\* the same call of objconfunc in a hot start from that history
ad_objconfunc_replay ==
    /\ ad.stage = "logged" /\ ad.engine = "NSGA2"
    /\ ad' = AfterReplay(objconfunc_assign(ad.nobj, ad.ncon, AdResult))
    /\ UNCHANGED <<solveVars, wk, grp, gd>>

\* one live call of mmfdfun by the engine, with the history stored
ad_mmfdfun ==
    /\ ad.stage = "call" /\ ad.engine = "MMFD"
    /\ ad' = AfterLive(mmfdfun_assign(ad.ncon, AdResult))
    /\ UNCHANGED <<solveVars, wk, grp, gd>>

\* the same call of mmfdfun in a hot start from that history
ad_mmfdfun_replay ==
    /\ ad.stage = "logged" /\ ad.engine = "MMFD"
    /\ ad' = AfterReplay(mmfdfun_assign(ad.ncon, AdResult))
    /\ UNCHANGED <<solveVars, wk, grp, gd>>

\* the engine returns with the buffers of this call; NSGA2 stores the results
ad_NSGA2_results ==
    /\ ad.stage = "returned" /\ ad.engine = "NSGA2"
    /\ ad' = [ad EXCEPT !.stage = "assembled", !.sol_cons = NSGA2_sol_cons(ad.ncon, ad.g)]
    /\ UNCHANGED <<solveVars, wk, grp, gd>>

\* the engine returns with the buffers of this call; MMFD stores the results
ad_MMFD_results ==
    /\ ad.stage = "returned" /\ ad.engine = "MMFD"
    /\ ad' = [ad EXCEPT !.stage = "assembled", !.sol_cons = MMFD_sol_cons(ad.ncon, ad.g)]
    /\ UNCHANGED <<solveVars, wk, grp, gd>>

----------------------------------------------------------------------------
(* The workspace of MMFD (SpecWk). Python 3 divides with "/" into a float: a  *)
(* number is kept in halves, so that x/2 is exact; numpy.array([v], numpy.int) *)
(* truncates.                                                                  *)

\* "nrwk0 = 500"
nrwk0 == 500

\* an integer, in halves
Halves(i) == 2 * i
\* x / 2 for an integer x, in halves
TrueDivBy2(x) == x
\* numpy.array([v], numpy.int) for v >= 0 in halves
ToInt(h) == h \div 2

\* MMFD.__solve__, "nrwk0 = 500" to "iwk = numpy.zeros(...)"
MMFD_workspace(nvar, ncon) ==
    LET nrwk1 == 10 * (2 * nvar + ncon)
        nrwk2 == (ncon + 2 * nvar + 3)
        \* (ncon+2*nvar)*((ncon+2*nvar)/2+1), in halves
        nrwk3h == (ncon + 2 * nvar) * (TrueDivBy2(ncon + 2 * nvar) + Halves(1))
        nrwkSh == Halves(nrwk0 + nrwk1 + nrwk2) + nrwk3h
    IN  [nrwkS2 |-> nrwkSh, nrwk |-> ToInt(nrwkSh), nriwk |-> ToInt(nrwkSh)]

WkIdle == [stage |-> "idle"]

WkInit ==
    \E nvar \in 1..MaxNvar, ncon \in 1..MaxNcon :
        wk = [stage |-> "input", nvar |-> nvar, ncon |-> ncon,
              nrwkS2 |-> 0, nrwk |-> 0, nriwk |-> 0]

wk_size ==
    /\ wk.stage = "input"
    /\ LET w == MMFD_workspace(wk.nvar, wk.ncon)
       IN  wk' = [wk EXCEPT !.stage = "sized", !.nrwkS2 = w.nrwkS2,
                            !.nrwk = w.nrwk, !.nriwk = w.nriwk]
    /\ UNCHANGED <<solveVars, ad, grp, gd>>

----------------------------------------------------------------------------
(* The variable groups (SpecGroups): the flat array __solve__ builds, the     *)
(* group index, and the argument the adapter makes of x for obj_fun.           *)
(* A Python dict is kept as the sequence of its items in insertion order.      *)

\* d[key] = val: a new key is added last, a key already there keeps its place
dict_set(d, key, val) ==
    IF \E i \in 1..Len(d) : d[i][1] = key
    THEN [i \in 1..Len(d) |-> IF d[i][1] = key THEN <<key, val>> ELSE d[i]]
    ELSE Append(d, <<key, val>>)

\* x[a:b] of a sequence, a and b counted from 0
slice(x, a, b) == [i \in 1..(b - a) |-> x[a + i]]

RECURSIVE flatten_loop(_, _, _)
\* "for key in ..._variables.keys(): xx.append(..._variables[key].value)": the
\* variables are those of the groups, in the order they were declared
flatten_loop(vargroups, i, xx) ==
    IF i > Len(vargroups) THEN xx
    ELSE flatten_loop(vargroups, i + 1, xx \o vargroups[i].vals)

flatten(vargroups) == flatten_loop(vargroups, 1, <<>>)

RECURSIVE group_ids_stuck(_, _, _, _)
\* the loop over the groups with k left where it is
group_ids_stuck(vargroups, i, k, group_ids) ==
    IF i > Len(vargroups) THEN group_ids
    ELSE LET group_len == Len(vargroups[i].vals)
         IN  group_ids_stuck(vargroups, i + 1, k,
                             dict_set(group_ids, vargroups[i].name, <<k, k + group_len>>))

RECURSIVE group_ids_loop(_, _, _, _)
\* "for key in ..._vargroups.keys(): group_len = len(...['ids']);
\*  group_ids[name] = [k,k+group_len]; k += group_len"
group_ids_loop(vargroups, i, k, group_ids) ==
    IF i > Len(vargroups) THEN group_ids
    ELSE LET group_len == Len(vargroups[i].vals)
         IN  group_ids_loop(vargroups, i + 1, k + group_len,
                            dict_set(group_ids, vargroups[i].name, <<k, k + group_len>>))

\* one group of the adapter's xg, always as a slice
xg_item_slice(x, ids) == Array(slice(x, ids[1], ids[2]))

\* "if (group_ids[group][1]-group_ids[group][0] == 1): xg[group] = x[...[0]]
\*  else: xg[group] = x[...[0]:...[1]]"
xg_item(x, ids) ==
    IF ids[2] - ids[1] = 1 THEN Scalar(x[ids[1] + 1])
    ELSE Array(slice(x, ids[1], ids[2]))

RECURSIVE xg_loop(_, _, _, _)
\* "for group in list(group_ids.keys()): ..."
xg_loop(x, group_ids, i, xg) ==
    IF i > Len(group_ids) THEN xg
    ELSE xg_loop(x, group_ids, i + 1,
                 dict_set(xg, group_ids[i][1], xg_item(x, group_ids[i][2])))

\* "Variables Groups Handling" of the adapter: xn, the argument of obj_fun
unflatten(use_groups, x, group_ids) ==
    IF use_groups THEN <<"dict", xg_loop(x, group_ids, 1, <<>>)>> ELSE Array(x)

GroupNames == {<<"g", i>> : i \in 1..MaxGroups}

\* the values of the variables: all different, so that a value tells its place
XBases == {10, 20}

\* the groups of a problem in declaration order, each with a name of its own and the
\* values of its member variables, which are declared with it
VarGroupInputs ==
    UNION { { vg \in [1..n -> [name : GroupNames, w : 0..MaxWidth]] :
                \A i, j \in 1..n : i # j => vg[i].name # vg[j].name } : n \in 1..MaxGroups }

RECURSIVE widths_before(_, _)
widths_before(vg, i) == IF i = 0 THEN 0 ELSE vg[i].w + widths_before(vg, i - 1)

GrpIdle == [stage |-> "idle"]

GrpInit ==
    \E vg \in VarGroupInputs, base \in XBases, use_groups \in BOOLEAN :
        grp = [ stage |-> "declared", use_groups |-> use_groups,
                vargroups |-> [i \in 1..Len(vg) |->
                                 [name |-> vg[i].name,
                                  vals |-> [j \in 1..vg[i].w |->
                                              base + widths_before(vg, i - 1) + j]]],
                xx |-> <<>>, nvar |-> 0, group_ids |-> <<>>, xn |-> <<>> ]

\* __solve__, "Variables Handling" and "Variables Groups Handling"
grp_solve_setup ==
    /\ grp.stage = "declared"
    /\ LET xx == flatten(grp.vargroups)
       IN  grp' = [grp EXCEPT !.stage = "indexed", !.xx = xx, !.nvar = Len(xx),
                              !.group_ids = IF grp.use_groups
                                            THEN group_ids_loop(grp.vargroups, 1, 0, <<>>)
                                            ELSE <<>>]
    /\ UNCHANGED <<solveVars, ad, wk, gd>>

\* the adapter called with the flat array: its "Variables Groups Handling"
grp_adapter ==
    /\ grp.stage = "indexed"
    /\ grp' = [grp EXCEPT !.stage = "called",
                          !.xn = unflatten(grp.use_groups, grp.xx, grp.group_ids)]
    /\ UNCHANGED <<solveVars, ad, wk, gd>>

----------------------------------------------------------------------------
(* The gradient bridge mmfdgrd: the matrices of the provider or of the store,  *)
(* and the buffers of the engine. A matrix is a sequence of rows.              *)

RECURSIVE ravel(_)
\* the row a matrix leaves in the store: its rows one after the other
ravel(mat) == IF mat = <<>> THEN <<>> ELSE Head(mat) \o ravel(Tail(mat))

\* numpy reshape((rows, cols)) of a flat row: row k takes the k-th run of cols items
reshape(flat, rows, cols) ==
    [k \in 1..rows |-> [i \in 1..cols |-> flat[(k - 1) * cols + i]]]

\* gradient.getGrad: the matrices of the provider for the point of the call
getGrad(F, G) == [dff |-> F, dgg |-> G]

\* mmfdgrd reading its record: the payloads reshaped to nobj x nvar and ncon x nvar
grad_replayed(rec, nobj, ncon, nvar) ==
    [dff |-> reshape(rec.grad_obj, nobj, nvar), dgg |-> reshape(rec.grad_con, ncon, nvar)]

\* mmfdgrd "Store History": what the two writes leave to a later read
grad_logged(m) == [grad_obj |-> ravel(m.dff), grad_con |-> ravel(m.dgg)]

\* an item of dg taken from the first column of dgg whatever the variable
dg_item_row(dgg, i, j) == dgg[j][1]

\* dg[i,j] = dgg[j,i]
dg_item(dgg, i, j) == dgg[j][i]

\* mmfdgrd "Gradient Assignment" into the buffers df (nvar) and dg (nvar x ncon)
mmfdgrd_assign(m, nvar, ncon) ==
    [df |-> [i \in 1..nvar |-> m.dff[1][i]],
     dg |-> [i \in 1..nvar |-> [j \in 1..ncon |-> dg_item(m.dgg, i, j)]]]

GradValues == {1, 2}

GdIdle == [stage |-> "idle"]

\* one gradient call of a problem with nvar variables and ncon constraints, whose
\* provider returns F and G; the engine's buffers start at zero
GdInit ==
    \E nvar \in 1..MaxVar :
    \E ncon \in 0..MaxCon :
    \E F \in [1..1 -> [1..nvar -> GradValues]] :
    \E G \in [1..ncon -> [1..nvar -> GradValues]] :
    \E mode \in {"live", "replay"} :
        gd = [ stage |-> "call", nobj |-> 1, nvar |-> nvar, ncon |-> ncon,
               F |-> F, G |-> G, mode |-> mode,
               rec |-> <<>>, dff |-> <<>>, dgg |-> <<>>,
               df |-> [i \in 1..nvar |-> 0],
               dg |-> [i \in 1..nvar |-> [j \in 1..ncon |-> 0]] ]

\* the matrices mmfdgrd works on: of the provider in the run that writes the store,
\* of the record in the hot-start run that follows it
GdMatrices ==
    IF gd.stage = "call" THEN getGrad(gd.F, gd.G)
    ELSE grad_replayed(gd.rec, gd.nobj, gd.ncon, gd.nvar)

\* one call of mmfdgrd by the engine, live with the history stored
gd_mmfdgrd ==
    /\ gd.stage = "call"
    /\ LET out == mmfdgrd_assign(GdMatrices, gd.nvar, gd.ncon)
       IN  gd' = [gd EXCEPT !.stage = IF gd.mode = "live" THEN "returned" ELSE "logged",
                            !.dff = GdMatrices.dff, !.dgg = GdMatrices.dgg,
                            !.rec = grad_logged(GdMatrices),
                            !.df = out.df, !.dg = out.dg]
    /\ UNCHANGED <<solveVars, ad, wk, grp>>

\* the engine of the hot-start run enters the same call with its own buffers
gd_mmfdgrd_replay ==
    /\ gd.stage = "logged"
    /\ LET out == mmfdgrd_assign(GdMatrices, gd.nvar, gd.ncon)
       IN  gd' = [gd EXCEPT !.stage = "returned",
                            !.dff = GdMatrices.dff, !.dgg = GdMatrices.dgg,
                            !.df = out.df, !.dg = out.dg]
    /\ UNCHANGED <<solveVars, ad, wk, grp>>

----------------------------------------------------------------------------
(* The specifications of the adapter values and of the workspace *)

\* no solve is running
DefaultInput ==
    [ engine |-> "MMFD", pll_type |-> PyNone, sens_mode |-> s_empty, mpi |-> DefaultMpi,
      store_hst |-> "False", hot_start |-> "False", options |-> DefaultOptions,
      problem |-> DefaultProblem, histEval |-> 0, histGrad |-> 0 ]

SolveIdle ==
    /\ cfg = DefaultInput
    /\ pc = [r \in {0} |-> "idle"]
    /\ drv = [r \in {0} |->
                [ poa |-> FALSE, pll |-> FALSE, myrank |-> 0,
                  h_start |-> FALSE, sto_hst |-> FALSE, tmp_file |-> FALSE,
                  Bcast |-> "unbound", err |-> "", inEngine |-> FALSE,
                  ip |-> 0, seed |-> "option",
                  sol_evals |-> "unset", printed |-> "" ]]
    /\ loc = [r \in {0} |-> [vals |-> NoVals, out |-> NoVals]]
    /\ hos_file = [name |-> "False", open |-> FALSE, closes |-> 0,
                   ecur |-> 0, gcur |-> 0, reads |-> 0]
    /\ log_file = [name |-> "False", open |-> FALSE, closes |-> 0, recs |-> <<>>]
    /\ disk = [n \in FileNames |-> "none"]
    /\ script = <<>>
    /\ ghost = [ storeOps |-> {},
                 bcasts |-> [r \in {0} |-> <<>>],
                 evals |-> [r \in {0} |-> 0],
                 calls |-> [r \in {0} |-> 0],
                 outs |-> [r \in {0} |-> <<>>],
                 exhaustedAt |-> 0, readsAtExh |-> 0 ]

InitAdapter == SolveIdle /\ AdInit /\ wk = WkIdle /\ grp = GrpIdle /\ gd = GdIdle

NextAdapter ==
    \/ ad_objconfunc
    \/ ad_objconfunc_replay
    \/ ad_mmfdfun
    \/ ad_mmfdfun_replay
    \/ ad_NSGA2_results
    \/ ad_MMFD_results

SpecAdapter == InitAdapter /\ [][NextAdapter]_vars

InitWk == SolveIdle /\ ad = AdIdle /\ WkInit /\ grp = GrpIdle /\ gd = GdIdle

NextWk == wk_size

SpecWk == InitWk /\ [][NextWk]_vars

InitGroups == SolveIdle /\ ad = AdIdle /\ wk = WkIdle /\ GrpInit /\ gd = GdIdle

NextGroups ==
    \/ grp_solve_setup
    \/ grp_adapter

SpecGroups == InitGroups /\ [][NextGroups]_vars

InitGrad == SolveIdle /\ ad = AdIdle /\ wk = WkIdle /\ grp = GrpIdle /\ GdInit

NextGrad ==
    \/ gd_mmfdgrd
    \/ gd_mmfdgrd_replay

SpecGrad == InitGrad /\ [][NextGrad]_vars

----------------------------------------------------------------------------
(* Properties of the solve *)

\* positions of __solve__ after the engine call has returned
AfterEngine == {"post", "remove", "rename", "results", "done"}
\* positions at which __solve__ has ended
Ended == {"done", "raised"}

\* a hot start was asked for
HotStartAsked == cfg.hot_start # "False"

\* C1: hot start is monotone within one solve. On every process, once __solve__ has
\* set the flag, a step that finds self.h_start false leaves it false: no callback
\* and no broadcast from rank 0 sets it again before the solve returns.
C1_HotStartMonotone ==
    [][\A r \in Procs : (pc[r] # "start" /\ ~drv[r].h_start) => ~drv'[r].h_start]_vars

\* a process other than rank 0 has finished a hot start whose flag was cleared and
\* then broadcast again
C1_Witness ==
    \E r \in Procs :
        /\ r # 0 /\ HotStartAsked /\ pc[r] = "done" /\ ~drv[r].h_start
        /\ Len(SelectSeq(ghost.bcasts[r], LAMBDA k : k = "flag")) >= 3
        /\ Len(SelectSeq(ghost.bcasts[r], LAMBDA k : k = "payload")) >= 1

\* C2: in a parallel run whose engine issues the same callbacks on every process,
\* every process makes the same broadcast calls in the same order (the flag, then
\* the record only if the flag is still set), the processes that meet in one
\* broadcast call it for the same value, and no process waits in a broadcast while
\* another has left the engine without making it.
C2_SameBroadcasts ==
    \A r, q \in Procs :
        /\ (drv[r].inEngine /\ drv[q].inEngine) => ghost.bcasts[r] = ghost.bcasts[q]
        /\ (drv[r].inEngine /\ pc[r] \in BSites /\ pc[q] \in BSites)
              => SiteKind(pc[r]) = SiteKind(pc[q])
        /\ (drv[r].inEngine /\ pc[r] \in BSites) => pc[q] \notin AfterEngine \cup Ended

\* a parallel run has ended in which rank 0 found the store exhausted after a replay
C2_Witness ==
    /\ Cardinality(Procs) > 1
    /\ \A r \in Procs : pc[r] = "done" /\ ~drv[r].h_start
    /\ HotStartAsked
    /\ \E i \in 1..Len(ghost.bcasts[0]) : ghost.bcasts[0][i] = "payload"
    /\ <<0, "close_hos">> \in ghost.storeOps

\* C3: the history stores have one writer. In a parallel solve only rank 0 opens,
\* reads, writes, closes, removes or renames a store.
C3_SingleWriter ==
    Cardinality(Procs) > 1 => \A op \in ghost.storeOps : op[1] = 0

\* a parallel run has ended after rank 0 read, wrote, closed and replaced the stores
C3_Witness ==
    /\ Cardinality(Procs) > 1
    /\ \A r \in Procs : pc[r] = "done"
    /\ {<<0, "read">>, <<0, "write">>, <<0, "close_log">>, <<0, "close_hos">>,
        <<0, "remove">>, <<0, "rename">>} \subseteq ghost.storeOps

\* both coordination regimes are asked for, in any letter case
BothRegimes ==
    /\ cfg.engine = "MMFD"
    /\ cfg.pll_type \in {s_POA, s_poa}
    /\ cfg.sens_mode \in {s_pgc, s_PGC}

\* C7: with 'POA' and 'pgc' both asked for, every process raises
\* NotImplementedError as the first thing __solve__ does: the engine is not called,
\* no callback runs, no broadcast is made and no store is opened, read or written.
C7_BothRegimesRefused ==
    BothRegimes =>
        /\ \A r \in Procs :
              /\ pc[r] \in {"start", "raised"}
              /\ pc[r] = "raised" => drv[r].err = "NotImplementedError"
              /\ ~drv[r].inEngine
              /\ ghost.calls[r] = 0 /\ ghost.evals[r] = 0
              /\ ghost.bcasts[r] = <<>>
        /\ ghost.storeOps = {}
        /\ ~hos_file.open /\ ~log_file.open /\ log_file.recs = <<>>
        /\ disk = InitialDisk

\* every process has refused 'poa' with 'PGC', for a solve asked to store its history
C7_Witness ==
    /\ BothRegimes /\ cfg.pll_type = s_poa /\ cfg.sens_mode = s_PGC
    /\ cfg.store_hst = "hist"
    /\ \A r \in Procs : pc[r] = "raised"

\* the configuration errors of each engine, read off the inputs
InvalidConfig ==
    \/ \E i \in 1..Len(cfg.problem.vtypes) : cfg.problem.vtypes[i] \in {"i", "d"}
    \/ /\ cfg.engine = "MMFD"
       /\ \/ cfg.options.IOPT \notin {0, 1}
          \/ cfg.options.IONED \notin {0, 1, 2, 3}
          \/ cfg.options.IPRINT \notin {0, 1, 2}
          \/ Len(cfg.problem.ctypes) = 0
    \/ /\ cfg.engine = "NSGA2"
       /\ \/ cfg.options.PrintOut \notin {0, 1, 2}
          \/ \E j \in 1..Len(cfg.problem.ctypes) : cfg.problem.ctypes[j] = "e"

\* C8: every configuration error is raised before the engine is called, before any
\* evaluation callback has run and before any history record is written: a process
\* given an invalid configuration never gets past the checks of __solve__.
C8_ConfigErrorsFirst ==
    InvalidConfig =>
        /\ \A r \in Procs :
              /\ pc[r] \in {"start", "validate", "raised"}
              /\ ~drv[r].inEngine
              /\ ghost.calls[r] = 0 /\ ghost.evals[r] = 0
        /\ log_file.recs = <<>>

\* C8 on the process that makes every check: rank 0, or the only process
C8_OnRankZero ==
    InvalidConfig =>
        /\ pc[0] \in {"start", "validate", "raised"}
        /\ ~drv[0].inEngine /\ ghost.calls[0] = 0 /\ ghost.evals[0] = 0
        /\ \A r \in Procs : ~drv[r].inEngine /\ ghost.evals[r] = 0
        /\ log_file.recs = <<>>

\* a hot start that writes its fresh store to temp-named files
TmpRun == cfg.store_hst # "False" /\ cfg.hot_start = cfg.store_hst

\* C10: a hot start that writes its fresh store to temp-named files leaves the
\* original files as they are until the engine call has returned and the fresh
\* store is closed; then it closes, deletes the originals, renames the temp files,
\* in this order. A store replayed under another name is never touched.
C10_ReplaceAfterRun ==
    /\ TmpRun =>
        /\ disk[cfg.hot_start] # "orig" =>
              pc[0] \in {"rename", "results", "done"} /\ ~log_file.open /\ log_file.closes = 1
        /\ pc[0] = "remove" => ~log_file.open /\ disk[cfg.hot_start] = "orig"
        /\ pc[0] = "rename" => disk[cfg.hot_start] = "none" /\ disk["hist_tmp"] = "fresh"
        /\ disk[cfg.hot_start] = "fresh" =>
              pc[0] \in {"results", "done"} /\ disk["hist_tmp"] = "none"
    /\ cfg.hot_start = "prev" => disk["prev"] = "orig"

\* the run has ended with the fresh store under the name of the original
C10_Witness ==
    /\ TmpRun /\ pc[0] = "done"
    /\ disk["hist"] = "fresh" /\ disk["hist_tmp"] = "none"
    /\ Len(log_file.recs) >= 2


----------------------------------------------------------------------------
(* Properties of the adapter values and of the workspace *)

\* the call has returned to the engine
AdReturned == ad.stage \in {"logged", "returned", "assembled"}

\* C4: NSGA2 failure sentinel. Whenever the evaluation, live or replayed, yields
\* fail = 1, objconfunc returns every objective equal to inf (10.E+20) and every
\* constraint equal to -inf, whatever obj_fun returned for f and g; and it does
\* return.
C4_NSGA2Sentinel ==
    (ad.stage # "idle" /\ ad.engine = "NSGA2" /\ ad.fail = 1 /\ ad.stage # "call") =>
        /\ AdReturned
        /\ Len(ad.f) = ad.nobj /\ Len(ad.g) = ad.ncon
        /\ \A i \in 1..ad.nobj : ad.f[i] = [m |-> 10, e |-> 20]
        /\ \A i \in 1..ad.ncon : ad.g[i] = [m |-> -10, e |-> 20]

\* a replayed failing evaluation of a problem of two objectives and two constraints
\* has returned
C4_Witness ==
    /\ ad.stage = "returned" /\ ad.engine = "NSGA2" /\ ad.fail = 1
    /\ ad.mode = "replay" /\ ad.nobj = 2 /\ ad.ncon = 2

\* C5: MMFD failure sentinel. Whenever the evaluation, live or replayed, yields
\* fail = 1, mmfdfun returns the objective forced to the sentinel inf and every
\* constraint forced to a sentinel of that magnitude, not the values of obj_fun.
C5_MMFDSentinel ==
    (ad.stage # "idle" /\ ad.engine = "MMFD" /\ ad.fail = 1 /\ AdReturned) =>
        /\ ad.f[1] = inf
        /\ \A i \in 1..ad.ncon : ad.g[i] \in {inf, neg(inf)}

\* C6: sign convention round trip. The constraint values stored in the solution
\* record are in the convention of the problem: for NSGA2, which hands -g to the
\* engine and stores the negation of the engine's g, and for MMFD, which flips at
\* neither end, the stored values are those obj_fun returned; a failed point of
\* NSGA2 is stored as +inf, infeasible for the problem as -inf is for the engine;
\* and negating twice gives back every value.
C6_SignRoundTrip ==
    (ad.stage = "assembled") =>
        /\ Len(ad.sol_cons) = ad.ncon
        /\ \A i \in 1..ad.ncon :
              /\ (ad.engine = "MMFD" \/ ad.fail = 0) => ad.sol_cons[i] = ad.gg[i]
              /\ (ad.engine = "NSGA2" /\ ad.fail = 0) => ad.g[i].m = 0 - ad.gg[i].m
              /\ (ad.engine = "MMFD") => ad.g[i] = ad.gg[i]
              /\ (ad.engine = "NSGA2" /\ ad.fail = 1) => ad.sol_cons[i] = [m |-> 10, e |-> 20]
              /\ neg(neg(ad.gg[i])) = ad.gg[i]

\* the results of an NSGA2 run are stored for a point with a constraint of each sign
C6_Witness ==
    /\ ad.stage = "assembled" /\ ad.engine = "NSGA2" /\ ad.fail = 0 /\ ad.ncon = 2
    /\ ad.gg[1] = Num(-1) /\ ad.gg[2] = Num(2)
    /\ ad.sol_cons = ad.gg

\* C9: the workspace length handed to MMFD (nrwk and nriwk) equals
\* 500 + 10*(2*nvar+ncon) + (ncon+2*nvar+3) + (ncon+2*nvar)*floor((ncon+2*nvar)/2+1),
\* the sum being an integer before it is converted.
C9_WorkspaceSize ==
    (wk.stage = "sized") =>
        LET n == wk.ncon + 2 * wk.nvar
            size == 500 + 10 * n + (n + 3) + n * ((n \div 2) + 1)
        IN  /\ wk.nrwk = size /\ wk.nriwk = size
            /\ wk.nrwkS2 % 2 = 0

\* C9 for the sizing example: nvar = 5, ncon = 3 gives 737
C9_Example ==
    (wk.stage = "sized" /\ wk.nvar = 5 /\ wk.ncon = 3) => wk.nrwk = 737


----------------------------------------------------------------------------
(* Properties of the variable groups *)

\* C11: unflattening the flattened array gives back each group's values, in
\* declaration order: a group of one member as the scalar x[start], a group of any
\* other width as the sub-sequence x[start:end]; with grouping off the flat array
\* itself is the argument of the objective function.
C11_UnflattenFlatten ==
    (grp.stage = "called") =>
        IF grp.use_groups
        THEN /\ grp.xn[1] = "dict"
             /\ Len(grp.xn[2]) = Len(grp.vargroups)
             /\ \A i \in 1..Len(grp.vargroups) :
                   /\ grp.xn[2][i][1] = grp.vargroups[i].name
                   /\ grp.xn[2][i][2] =
                         IF Len(grp.vargroups[i].vals) = 1
                         THEN <<"scalar", grp.vargroups[i].vals[1]>>
                         ELSE <<"array", grp.vargroups[i].vals>>
        ELSE grp.xn = <<"array", grp.xx>>

\* a problem of three groups, the middle one of a single member, has been unflattened
C11_Witness ==
    /\ grp.stage = "called" /\ grp.use_groups
    /\ Len(grp.vargroups) = 3
    /\ Len(grp.vargroups[1].vals) = 2 /\ Len(grp.vargroups[2].vals) = 1
    /\ Len(grp.vargroups[3].vals) = 2
    /\ grp.xn[2][2][2] = <<"scalar", grp.xx[3]>>

\* C20: the group index maps each group name to a range [start, end); taken in
\* declaration order the ranges start at 0, each starts where the one before ends,
\* each has the width of its group's member list, and the last ends at nvar.
C20_GroupPartition ==
    (grp.stage \in {"indexed", "called"} /\ grp.use_groups) =>
        LET ids == grp.group_ids
            n   == Len(grp.vargroups)
        IN  /\ Len(ids) = n
            /\ \A i \in 1..n :
                  /\ ids[i][1] = grp.vargroups[i].name
                  /\ ids[i][2][1] = IF i = 1 THEN 0 ELSE ids[i - 1][2][2]
                  /\ ids[i][2][2] - ids[i][2][1] = Len(grp.vargroups[i].vals)
            /\ ids[n][2][2] = grp.nvar
            /\ \A k \in 0..(grp.nvar - 1) :
                  Cardinality({i \in 1..n : ids[i][2][1] <= k /\ k < ids[i][2][2]}) = 1

\* the index of three groups of widths 2, 1, 2 has been built
C20_Witness ==
    /\ grp.stage = "indexed" /\ grp.use_groups
    /\ Len(grp.group_ids) = 3
    /\ grp.group_ids[1][2] = <<0, 2>> /\ grp.group_ids[2][2] = <<2, 3>>
    /\ grp.group_ids[3][2] = <<3, 5>>


----------------------------------------------------------------------------
(* Properties of the results and of the callbacks of one solve *)

\* C12: for NSGA2 the evaluation count stored in the solution and returned as
\* 'fevals' equals the number of times the engine called objconfunc in the solve.
C12_NSGA2Fevals ==
    \A r \in Procs :
        (cfg.engine = "NSGA2" /\ pc[r] = "done") => drv[r].sol_evals = ghost.calls[r]


\* the store values a call can replay, and the values of a live call
IsRecord(v) == v[1] \in {"eval", "grad"}
IsLive(v) == v[1] \in {"live", "livegrad"}

\* C13: when the store reports its end to a read of rank 0 in a callback, the
\* hot-start flag is false and the store closed from that callback on, that
\* callback returns, on every rank, the values of a live evaluation (obj_fun, or
\* getGrad for mmfdgrd) of its own point and not the empty placeholders, and the
\* store is not read again in the solve.
C13_ExhaustionGoesLive ==
    (ghost.exhaustedAt > 0) =>
        LET n == ghost.exhaustedAt
        IN  /\ ~drv[0].h_start
            /\ ~hos_file.open /\ hos_file.closes >= 1
            /\ hos_file.reads = ghost.readsAtExh
            /\ \A r \in Procs :
                  Len(ghost.outs[r]) >= n =>
                     /\ ghost.outs[r][n].evaluated
                     /\ ~ghost.outs[r][n].flag
                     /\ ghost.outs[r][n].val =
                           <<IF ghost.outs[r][n].kind = "fun" THEN "live" ELSE "livegrad", n>>

\* in a parallel run the store ended in a gradient call after a replayed evaluation,
\* both ranks have returned from that call, and a later callback has run
C13_Witness ==
    /\ Cardinality(Procs) > 1
    /\ ghost.exhaustedAt = 2
    /\ \A r \in Procs : Len(ghost.outs[r]) >= 3 /\ ghost.outs[r][2].kind = "grd"
    /\ ghost.outs[0][1].flag

\* C14: in every call of the evaluation adapter, on every rank, either the flag is
\* active after the synchronisation and the values are those of the replayed record,
\* obj_fun not being called, or the flag is inactive and obj_fun is called exactly
\* once on that rank, for the point of the call; never both, never neither.
C14_ReplayXorEvaluate ==
    \A r \in Procs :
        /\ \A n \in 1..Len(ghost.outs[r]) :
              LET o == ghost.outs[r][n]
              IN  (o.kind = "fun") =>
                     \/ o.flag /\ ~o.evaluated /\ IsRecord(o.val)
                     \/ ~o.flag /\ o.evaluated /\ o.val = <<"live", n>>
        /\ (pc[r] \in {"engine", "run_engine", "post", "results", "done"}) =>
              ghost.evals[r] =
                 Cardinality({n \in 1..Len(ghost.outs[r]) :
                                ghost.outs[r][n].kind = "fun" /\ ~ghost.outs[r][n].flag})

\* a single process has replayed one evaluation and then evaluated one
C14_Witness ==
    /\ Cardinality(Procs) = 1 /\ Len(ghost.outs[0]) >= 2
    /\ ghost.outs[0][1].kind = "fun" /\ ghost.outs[0][1].flag
    /\ \E n \in 2..Len(ghost.outs[0]) :
          ghost.outs[0][n].kind = "fun" /\ ghost.outs[0][n].evaluated

\* C15: in a parallel run, a call that replays returns on every rank the record
\* rank 0 read from the store: the same evaluation record for one evaluation call,
\* the same gradient record for one gradient call.
C15_SameReplayedValues ==
    \A r \in Procs :
        \A n \in 1..Len(ghost.outs[r]) :
            (Cardinality(Procs) > 1 /\ ghost.outs[r][n].flag) =>
                /\ IsRecord(ghost.outs[r][n].val)
                /\ ghost.outs[r][n].val[1] =
                      (IF ghost.outs[r][n].kind = "fun" THEN "eval" ELSE "grad")
                /\ \A q \in Procs :
                      n <= Len(ghost.outs[q]) => ghost.outs[q][n] = ghost.outs[r][n]

\* two ranks have both returned from a replayed evaluation and a replayed gradient
C15_Witness ==
    /\ Cardinality(Procs) > 1
    /\ \A r \in Procs :
          /\ Len(ghost.outs[r]) >= 2
          /\ ghost.outs[r][1] = [kind |-> "fun", val |-> <<"eval", 1>>,
                                 flag |-> TRUE, evaluated |-> FALSE]
          /\ ghost.outs[r][2] = [kind |-> "grd", val |-> <<"grad", 1>>,
                                 flag |-> TRUE, evaluated |-> FALSE]

RECURSIVE EvalLog(_, _)
\* the evaluation records of the calls n.. of a rank: x, obj, con, fail per call
EvalLog(outs, n) ==
    IF n > Len(outs) THEN <<>>
    ELSE (IF outs[n].kind = "fun"
          THEN <<<<"x", n>>, <<"obj", outs[n].val>>, <<"con", outs[n].val>>,
                 <<"fail", outs[n].val>>>>
          ELSE <<>>) \o EvalLog(outs, n + 1)

\* C17: with history storing on, every call of the evaluation adapter makes rank 0,
\* and no other rank, append one record x, obj, con, fail, in that order, for a
\* replayed evaluation as for a live one: the store written holds the evaluation
\* records of the calls so far in call order, a replayed one being the record read.
C17_OneRecordPerCall ==
    /\ \A op \in ghost.storeOps : op[2] = "write" => op[1] = 0
    /\ drv[0].sto_hst =>
          /\ SelectSeq(log_file.recs, LAMBDA e : e[1] \in {"x", "obj", "con", "fail"})
                = EvalLog(ghost.outs[0], 1)
          /\ \A n \in 1..Len(ghost.outs[0]) :
                (ghost.outs[0][n].kind = "fun" /\ ghost.outs[0][n].flag) =>
                    IsRecord(ghost.outs[0][n].val)
    /\ ~drv[0].sto_hst => log_file.recs = <<>>

\* in a parallel run that stores its history, rank 0 has logged a replayed
\* evaluation and then two live ones
C17_Witness ==
    /\ Cardinality(Procs) > 1 /\ drv[0].sto_hst
    /\ Len(ghost.outs[0]) = 3
    /\ \A n \in 1..3 : ghost.outs[0][n].kind = "fun"
    /\ ghost.outs[0][1].flag /\ ~ghost.outs[0][2].flag
    /\ Len(log_file.recs) >= 12


----------------------------------------------------------------------------
(* Properties of a replayed call against the live call that wrote its record *)

\* C16: a hot-start run that replays the record an earlier live run wrote returns
\* to the engine the (f, g) the live run returned for that evaluation, for any
\* number of objectives and constraints and for failing and non-failing points;
\* the record holds the values obj_fun returned, before the sign flip.
C16_ReplayEquivalence ==
    (ad.stage # "idle" /\ ad.mode = "replay" /\ ad.stage \notin {"call", "logged"}) =>
        /\ ad.stage \in {"returned", "assembled"}
        /\ ad.f = ad.f0 /\ ad.g = ad.g0
        /\ ad.rec.obj = <<ad.ff>> /\ ad.rec.con = <<ad.gg>> /\ ad.rec.fail = <<<<ad.fail>>>>

\* C17 (the records): the record a replayed evaluation appends to the store being
\* written equals the record that was replayed.
C17_RecordsRelogged ==
    (ad.stage # "idle" /\ ad.mode = "replay" /\ ad.stage \notin {"call", "logged"}) =>
        ad.rec2 = ad.rec

----------------------------------------------------------------------------
(* Properties of the gradient bridge *)

\* C18: after a call of mmfdgrd, live or replayed, df[i] = dff[0][i] and
\* dg[i][j] = dgg[j][i] for every variable i and constraint j, dff being the
\* nobj x nvar and dgg the ncon x nvar matrix of the provider or of the payload
\* reshaped; the reshaped payload is the matrix the stored call was given.
C18_GradientTransposition ==
    (gd.stage \in {"logged", "returned"}) =>
        /\ Len(gd.dff) = gd.nobj /\ \A k \in 1..gd.nobj : Len(gd.dff[k]) = gd.nvar
        /\ Len(gd.dgg) = gd.ncon /\ \A j \in 1..gd.ncon : Len(gd.dgg[j]) = gd.nvar
        /\ gd.dff = gd.F /\ gd.dgg = gd.G
        /\ Len(gd.df) = gd.nvar /\ Len(gd.dg) = gd.nvar
        /\ \A i \in 1..gd.nvar :
              /\ gd.df[i] = gd.dff[1][i]
              /\ Len(gd.dg[i]) = gd.ncon
              /\ \A j \in 1..gd.ncon : gd.dg[i][j] = gd.dgg[j][i]

\* a replayed call with two variables and two constraints whose constraint
\* gradient is not symmetric
C18_Witness ==
    /\ gd.stage = "returned" /\ gd.mode = "replay"
    /\ gd.nvar = 2 /\ gd.ncon = 2
    /\ gd.G[1][2] # gd.G[2][1]
    /\ gd.dg[1][2] = gd.G[2][1] /\ gd.dg[2][1] = gd.G[1][2]

----------------------------------------------------------------------------
(* Properties of several solves on one driver object *)

\* C19: the set-up of every solve, whatever an earlier solve left on the object,
\* leaves the parallel flag, the rank and the hot-start flag that the arguments of
\* this solve ask for; a solve that raises before that has run nothing; after its
\* set-up a solve never changes the parallel flag or the rank, and changes the
\* hot-start flag only by clearing it in a callback (at its read of the store or
\* at its broadcast of the flag).
C19_NoLeakBetweenSolves ==
    [][\A r \in Procs \cap Procs' :
          /\ (pc[r] = "start" /\ pc'[r] = "validate") =>
                /\ drv'[r].pll = WantsPll(cfg)
                /\ drv'[r].myrank = (IF WantsPll(cfg) THEN r ELSE 0)
                /\ drv'[r].h_start = (cfg.hot_start # "False")
          /\ (pc[r] = "start" /\ pc'[r] = "raised") =>
                /\ ghost' = ghost /\ hos_file' = hos_file /\ log_file' = log_file
          /\ (pc[r] # "start" /\ pc'[r] # "start") =>
                /\ drv'[r].pll = drv[r].pll
                /\ drv'[r].myrank = drv[r].myrank
                /\ drv'[r].poa = drv[r].poa
                /\ (drv'[r].h_start # drv[r].h_start) =>
                      /\ ~drv'[r].h_start
                      /\ pc[r] \in {"init_eval", "engine", "fun_bflag", "grd_bflag"}
    ]_vars

\* a parallel solve without hot start follows a serial hot-start solve: rank 1 still
\* holds what that solve left, rank 0 has set up and holds the values of this solve
C19_Witness ==
    /\ Cardinality(Procs) > 1 /\ cfg.hot_start = "False"
    /\ pc[1] = "start" /\ drv[1].h_start /\ ~drv[1].pll
    /\ pc[0] = "validate" /\ ~drv[0].h_start /\ drv[0].pll /\ drv[0].myrank = 0

----------------------------------------------------------------------------
(* Properties of a parallel solve without mpi4py *)

\* a parallel regime is asked for (and not refused) and mpi4py cannot be imported
NoMpi4py(r) ==
    /\ WantsPll(cfg) /\ ~cfg.mpi.avail
    /\ ~(cfg.engine = "MMFD" /\ MMFD_both_regimes(r))

\* C21 (as stated): when a parallel regime is asked for and mpi4py cannot be
\* imported, the solve reports it and is not aborted: it goes on towards the
\* engine call.
C21_ReportedNotAborted ==
    \A r \in Procs :
        (NoMpi4py(r) /\ pc[r] # "start") => (drv[r].printed # "" /\ pc[r] # "raised")

\* C21 (amended): when a parallel regime is asked for and mpi4py cannot be
\* imported, the solve reports it and raises no error of its own, but its next
\* statement, MPI.COMM_WORLD, raises UnboundLocalError: the solve ends there,
\* with no broadcast primitive bound, before the stores are opened and before any
\* evaluation or engine call.
C21_ReportedThenRaises ==
    \A r \in Procs :
        (NoMpi4py(r) /\ pc[r] # "start") =>
            /\ drv[r].printed # ""
            /\ pc[r] = "raised" /\ drv[r].err = "UnboundLocalError"
            /\ drv[r].Bcast = "unbound"
            /\ ~hos_file.open /\ ~log_file.open /\ ghost.storeOps = {}
            /\ ghost.calls[r] = 0 /\ script = <<>>

\* a solve that asked for POA without mpi4py has reported it and has ended
C21_Witness ==
    /\ NoMpi4py(0) /\ pc[0] = "raised" /\ drv[0].err = "UnboundLocalError"
    /\ drv[0].poa /\ drv[0].printed # ""

----------------------------------------------------------------------------
(* Properties of the configuration checks in a parallel solve *)

\* C22: in a parallel MMFD solve a configuration error is raised on every rank or
\* on none: rank 0 has never ended with a configuration error while another rank
\* has passed the checks and is in, or waits at a broadcast of, the initial
\* evaluation.
C22_ErrorOnAllRanksOrNone ==
    (cfg.engine = "MMFD" /\ Cardinality(Procs) > 1) =>
        ~ /\ pc[0] = "raised"
          /\ drv[0].err # "" /\ drv[0].err = MMFD_config_error(0)
          /\ \E r \in Procs \ {0} : pc[r] \notin {"start", "validate", "raised"}

----------------------------------------------------------------------------
(* Properties of the store replayed *)

\* C23: the store replayed is closed at most once in a solve, and is not read
\* again once it is closed; the replacement step after the run does not close a
\* store that its exhaustion has closed in a callback.
C23_ClosedAtMostOnce ==
    /\ hos_file.closes <= 1
    /\ (ghost.exhaustedAt > 0) => hos_file.reads = ghost.readsAtExh

----------------------------------------------------------------------------
(* Properties of the broadcast primitive *)

\* C24: whenever the set-up of the solve has left the parallel flag true it has
\* bound Bcast, whatever the version of mpi4py, and no callback (nor the seed
\* broadcast) meets an undefined Bcast.
C24_BcastBound ==
    \A r \in Procs :
        /\ (pc[r] # "start" /\ drv[r].pll) => drv[r].Bcast # "unbound"
        /\ drv[r].err # "NameError"

----------------------------------------------------------------------------
(* Properties of the seed of NSGA2 *)

\* the seed this solve is to run with: the one of the store in a hot start, else
\* the time of rank 0 for the option 0, else the option
SeedDue ==
    IF cfg.hot_start # "False" THEN "hist"
    ELSE IF cfg.options.seed = 0 THEN "time" ELSE "option"

\* C25: every rank of an NSGA2 solve passes the same seed to the engine: in a hot
\* start the seed recorded in the store, whatever the option; in a live run with
\* the option 0 the time-based seed of rank 0; with storing on, rank 0 has written
\* that seed to the fresh store before any evaluation record.
C25_SeedReplay ==
    cfg.engine = "NSGA2" =>
        \A r \in Procs :
            (pc[r] \in {"engine", "fun_bflag", "fun_bpay", "fun_mid", "fun_tail"}
                \cup AfterEngine) =>
                /\ drv[r].seed = SeedDue
                /\ (r = 0 /\ drv[0].sto_hst) =>
                      /\ log_file.recs # <<>>
                      /\ Head(log_file.recs) = <<"seed", <<SeedDue, 0>>>>
                      /\ \A k \in 2..Len(log_file.recs) : log_file.recs[k][1] # "seed"

\* a parallel hot start with a seed option that is not 0: both ranks run the engine
\* and rank 0 has logged the seed and an evaluation
C25_Witness ==
    /\ cfg.engine = "NSGA2" /\ Cardinality(Procs) > 1
    /\ cfg.hot_start # "False" /\ cfg.options.seed # 0
    /\ \A r \in Procs : drv[r].inEngine /\ drv[r].seed = "hist"
    /\ drv[0].sto_hst /\ Len(log_file.recs) >= 5

====
